---- MODULE Spec2Model ----
(***************************************************************************)
(* Model of src/src/index.js: an in-memory to-do HTTP service.  The state  *)
(* is the module-level array `users`; each route handler is one action     *)
(* that handles one whole request, middleware included.                    *)
(*                                                                         *)
(* Conventions:                                                            *)
(*  - the JavaScript value undefined (an absent header, an absent body     *)
(*    field) is the string Undefined, which no input set contains as a     *)
(*    client-supplied string;                                              *)
(*  - uuidv4() returns a fresh value on every call: the n-th value it      *)
(*    returns is written n, and uuidCount counts the calls made so far;    *)
(*  - an index 0 stands for "not found" (find() = undefined,               *)
(*    findIndex() = -1); sequences are 1-based;                            *)
(*  - a Date is written as the ISO string toISOString() gives for it, and  *)
(*    the invalid Date (time value NaN) as InvalidDate; `now` is the       *)
(*    reading of the clock in ticks, and the clock advances by one tick    *)
(*    between two readings;                                                *)
(*  - a handler is an operator from the store and the request's inputs to  *)
(*    the store it leaves and the response it sends; the action of a route *)
(*    applies the handler to inputs chosen by the client;                  *)
(*  - `request` holds the request handled by the last step (a todo route    *)
(*    records its body only when the handler went on to use it),           *)
(*    `response` the answer sent for it, and nextCalled tells whether the  *)
(*    middleware handed that request on to the route handler;              *)
(*  - `inputs` is fixed during a run: the titles and deadlines the clients *)
(*    send, and the number of uuidv4() calls the run is followed for.      *)
(***************************************************************************)
EXTENDS Integers, Sequences, FiniteSets, TLC

VARIABLES users, uuidCount, now, request, response, nextCalled, inputs

vars == <<users, uuidCount, now, request, response, nextCalled, inputs>>

\* ---- bounds ----
MaxUuid == 3
MaxLongUuid == 4

\* ---- values ----
Undefined == "<undefined>"
Null == "<null>"
InvalidDate == "Invalid Date"

Names == {"Ana"}
\* the username header of a request, and the username field of a POST /users body
Usernames == {"ana", Undefined}
Titles == {"buy milk", "walk dog"}
Deadlines == {"2024-01-01", "garbage"}

NewDate(value) ==
  IF value = "2024-01-01" THEN "2024-01-01T00:00:00.000Z" ELSE InvalidDate

DateToJSON(date) ==
  IF date = InvalidDate THEN Null ELSE date

\* ---- lookups ----
\* fault injection: the lookup compares the name, not the username
UsersFindByName(us, username) ==
  IF \E i \in 1..Len(us) : us[i].name = username
  THEN CHOOSE i \in 1..Len(us) :
         /\ us[i].name = username
         /\ \A j \in 1..(i - 1) : us[j].name # username
  ELSE 0

\* us.find(user => user.username === username): index of the first match, 0 if none
UsersFind(us, username) ==
  IF \E i \in 1..Len(us) : us[i].username = username
  THEN CHOOSE i \in 1..Len(us) :
         /\ us[i].username = username
         /\ \A j \in 1..(i - 1) : us[j].username # username
  ELSE 0

\* fault injection: a miss is taken for the last entry (index -1 counted from the end)
TodosFindIndexOrLast(todos, id) ==
  IF \E i \in 1..Len(todos) : todos[i].id = id
  THEN CHOOSE i \in 1..Len(todos) :
         /\ todos[i].id = id
         /\ \A j \in 1..(i - 1) : todos[j].id # id
  ELSE Len(todos)

\* todos.find / todos.findIndex(todo => todo.id === id): index of the first match, 0 if none
TodosFindIndex(todos, id) ==
  IF \E i \in 1..Len(todos) : todos[i].id = id
  THEN CHOOSE i \in 1..Len(todos) :
         /\ todos[i].id = id
         /\ \A j \in 1..(i - 1) : todos[j].id # id
  ELSE 0

\* fault injection: todos.splice(index), which removes every entry from index on
SpliceToEnd(todos, index) ==
  [i \in 1..(index - 1) |-> todos[i]]

\* todos.splice(index, 1)
Splice(todos, index) ==
  [i \in 1..(Len(todos) - 1) |-> IF i < index THEN todos[i] ELSE todos[i + 1]]

\* ---- JSON serialisation (response.json) ----
TodoToJSON(todo) ==
  [id |-> todo.id, title |-> todo.title, done |-> todo.done,
   deadline |-> DateToJSON(todo.deadline), created_at |-> todo.created_at]

TodosToJSON(todos) ==
  [i \in 1..Len(todos) |-> TodoToJSON(todos[i])]

\* a property whose value is undefined is left out of the JSON text
UserToJSON(user) ==
  LET base == [id |-> user.id, name |-> user.name, todos |-> TodosToJSON(user.todos)]
  IN IF user.username = Undefined THEN base
     ELSE [f \in DOMAIN base \cup {"username"} |->
             IF f = "username" THEN user.username ELSE base[f]]

UserNotFound == [status |-> 400, body |-> [error |-> "Usuario nao encontrado!"]]
UserAlreadyExists == [status |-> 400, body |-> [error |-> "Usuario ja cadastrado!"]]
TodoNotFound == [status |-> 404, body |-> [error |-> "TODO nao encontrado!"]]

\* what handling one request leaves behind
Result(us, count, clock, resp, next) ==
  [users |-> us, uuidCount |-> count, now |-> clock,
   response |-> resp, nextCalled |-> next]

\* ---- middleware ----
\* fault injection: the middleware takes the first user of the store
checksExistsUserAccountFirst(us, username) ==
  IF us = <<>> THEN 0 ELSE 1

\* index of the user the request resolves to (request.user), 0 when it is rejected
checksExistsUserAccount(us, username) == UsersFind(us, username)

Reject(us, count, clock) == Result(us, count, clock, UserNotFound, FALSE)

\* ---- route handlers ----
PostUsersHandler(us, count, clock, name, username) ==
  IF UsersFind(us, username) # 0
  THEN Result(us, count, clock, UserAlreadyExists, FALSE)
  ELSE LET user == [id |-> count + 1, name |-> name, username |-> username,
                    todos |-> <<>>, todo |-> 0]
       IN Result(Append(us, user), count + 1, clock,
                 [status |-> 201, body |-> UserToJSON(user)], FALSE)

GetTodosHandler(us, count, clock, username) ==
  LET u == checksExistsUserAccount(us, username)
  IN IF u = 0 THEN Reject(us, count, clock)
     ELSE Result(us, count, clock,
                 [status |-> 200, body |-> TodosToJSON(us[u].todos)], TRUE)

\* fault injection: the new todo is put at the head of the list (unshift)
PostTodosHandlerUnshift(us, count, clock, username, title, deadline) ==
  LET u == checksExistsUserAccount(us, username)
  IN IF u = 0 THEN Reject(us, count, clock)
     ELSE LET todo == [id |-> count + 1, title |-> title, done |-> FALSE,
                       deadline |-> NewDate(deadline), created_at |-> clock + 1]
          IN Result([us EXCEPT ![u].todos = <<todo>> \o @], count + 1, clock + 1,
                    [status |-> 201, body |-> TodoToJSON(todo)], TRUE)

PostTodosHandler(us, count, clock, username, title, deadline) ==
  LET u == checksExistsUserAccount(us, username)
  IN IF u = 0 THEN Reject(us, count, clock)
     ELSE LET todo == [id |-> count + 1, title |-> title, done |-> FALSE,
                       deadline |-> NewDate(deadline), created_at |-> clock + 1]
          IN Result([us EXCEPT ![u].todos = Append(@, todo)], count + 1, clock + 1,
                    [status |-> 201, body |-> TodoToJSON(todo)], TRUE)

\* fault injection: the update builds the todo anew, as POST /todos does
PutTodosHandlerRebuild(us, count, clock, username, id, title, deadline) ==
  LET u == checksExistsUserAccount(us, username)
  IN IF u = 0 THEN Reject(us, count, clock)
     ELSE LET k == TodosFindIndex(us[u].todos, id)
          IN IF k = 0
             THEN Result([us EXCEPT ![u].todo = 0], count, clock, TodoNotFound, TRUE)
             ELSE LET todo == [id |-> id, title |-> title, done |-> us[u].todos[k].done,
                               deadline |-> NewDate(deadline), created_at |-> clock + 1]
                  IN Result([us EXCEPT ![u].todo = id, ![u].todos[k] = todo],
                            count, clock + 1,
                            [status |-> 200, body |-> TodoToJSON(todo)], TRUE)

\* fault injection: the update also sets done back to false
PutTodosHandlerUndone(us, count, clock, username, id, title, deadline) ==
  LET u == checksExistsUserAccount(us, username)
  IN IF u = 0 THEN Reject(us, count, clock)
     ELSE LET k == TodosFindIndex(us[u].todos, id)
          IN IF k = 0
             THEN Result([us EXCEPT ![u].todo = 0], count, clock, TodoNotFound, TRUE)
             ELSE LET todo == [us[u].todos[k] EXCEPT !.title = title,
                                                    !.deadline = NewDate(deadline),
                                                    !.done = FALSE]
                  IN Result([us EXCEPT ![u].todo = id, ![u].todos[k] = todo],
                            count, clock,
                            [status |-> 200, body |-> TodoToJSON(todo)], TRUE)

\* `const todo = user.todo = user.todos.find(...)` also stores the found todo
\* (or undefined, written 0) in the property `todo` of the user
PutTodosHandler(us, count, clock, username, id, title, deadline) ==
  LET u == checksExistsUserAccount(us, username)
  IN IF u = 0 THEN Reject(us, count, clock)
     ELSE LET k == TodosFindIndex(us[u].todos, id)
          IN IF k = 0
             THEN Result([us EXCEPT ![u].todo = 0], count, clock, TodoNotFound, TRUE)
             ELSE LET todo == [us[u].todos[k] EXCEPT !.title = title,
                                                    !.deadline = NewDate(deadline)]
                  IN Result([us EXCEPT ![u].todo = id, ![u].todos[k] = todo],
                            count, clock,
                            [status |-> 200, body |-> TodoToJSON(todo)], TRUE)

\* fault injection: the completion toggles done
PatchTodosDoneHandlerToggle(us, count, clock, username, id) ==
  LET u == checksExistsUserAccount(us, username)
  IN IF u = 0 THEN Reject(us, count, clock)
     ELSE LET k == TodosFindIndex(us[u].todos, id)
          IN IF k = 0
             THEN Result([us EXCEPT ![u].todo = 0], count, clock, TodoNotFound, TRUE)
             ELSE LET todo == [us[u].todos[k] EXCEPT !.done = ~@]
                  IN Result([us EXCEPT ![u].todo = id, ![u].todos[k] = todo],
                            count, clock,
                            [status |-> 200, body |-> TodoToJSON(todo)], TRUE)

PatchTodosDoneHandler(us, count, clock, username, id) ==
  LET u == checksExistsUserAccount(us, username)
  IN IF u = 0 THEN Reject(us, count, clock)
     ELSE LET k == TodosFindIndex(us[u].todos, id)
          IN IF k = 0
             THEN Result([us EXCEPT ![u].todo = 0], count, clock, TodoNotFound, TRUE)
             ELSE LET todo == [us[u].todos[k] EXCEPT !.done = TRUE]
                  IN Result([us EXCEPT ![u].todo = id, ![u].todos[k] = todo],
                            count, clock,
                            [status |-> 200, body |-> TodoToJSON(todo)], TRUE)

DeleteTodosHandler(us, count, clock, username, id) ==
  LET u == checksExistsUserAccount(us, username)
  IN IF u = 0 THEN Reject(us, count, clock)
     ELSE LET todoIndex == TodosFindIndex(us[u].todos, id)
          IN IF todoIndex = 0
             THEN Result(us, count, clock, TodoNotFound, TRUE)
             ELSE Result([us EXCEPT ![u].todos = Splice(@, todoIndex)], count, clock,
                         [status |-> 204, body |-> Undefined], TRUE)

\* ---- the state machine ----
\* clients that send varied titles and deadlines
Wide == [titles |-> Titles, deadlines |-> Deadlines, maxUuid |-> MaxUuid]

\* clients that send one title and one deadline, followed for longer lists
Long == [titles |-> {"buy milk"}, deadlines |-> {"2024-01-01"}, maxUuid |-> MaxLongUuid]

Start(in) ==
  /\ users = <<>>
  /\ uuidCount = 0
  /\ now = 0
  /\ request = [method |-> "NONE", path |-> "NONE"]
  /\ response = [status |-> 0, body |-> Undefined]
  /\ nextCalled = FALSE
  /\ inputs = in

Init == Start(Wide)

InitLong == Start(Long)

\* what the handler leaves behind becomes the state
Respond(r) ==
  /\ users' = r.users
  /\ uuidCount' = r.uuidCount
  /\ now' = r.now
  /\ response' = r.response
  /\ nextCalled' = r.nextCalled
  /\ UNCHANGED inputs

\* the body of a todo request, as far as the handler used it
BodyUsed(r, body) ==
  IF r.nextCalled /\ r.response.status # 404 THEN body ELSE Undefined

PostUsers ==
  \E name \in Names, username \in Usernames :
    LET r == PostUsersHandler(users, uuidCount, now, name, username)
    IN /\ r.uuidCount <= inputs.maxUuid
       /\ request' = [method |-> "POST", path |-> "/users",
                      body |-> [name |-> name, username |-> username]]
       /\ Respond(r)

GetTodos ==
  \E username \in Usernames :
    LET r == GetTodosHandler(users, uuidCount, now, username)
    IN /\ request' = [method |-> "GET", path |-> "/todos",
                      headers |-> [username |-> username]]
       /\ Respond(r)

PostTodos ==
  \E username \in Usernames, title \in inputs.titles, deadline \in inputs.deadlines :
    LET r == PostTodosHandler(users, uuidCount, now, username, title, deadline)
    IN /\ r.uuidCount <= inputs.maxUuid
       /\ request' = [method |-> "POST", path |-> "/todos",
                      headers |-> [username |-> username],
                      body |-> BodyUsed(r, [title |-> title, deadline |-> deadline])]
       /\ Respond(r)

PutTodos ==
  \E username \in Usernames, id \in 1..inputs.maxUuid,
     title \in inputs.titles, deadline \in inputs.deadlines :
    LET r == PutTodosHandler(users, uuidCount, now, username, id, title, deadline)
    IN /\ request' = [method |-> "PUT", path |-> "/todos/:id",
                      headers |-> [username |-> username], params |-> [id |-> id],
                      body |-> BodyUsed(r, [title |-> title, deadline |-> deadline])]
       /\ Respond(r)

PatchTodosDone ==
  \E username \in Usernames, id \in 1..inputs.maxUuid :
    LET r == PatchTodosDoneHandler(users, uuidCount, now, username, id)
    IN /\ request' = [method |-> "PATCH", path |-> "/todos/:id/done",
                      headers |-> [username |-> username], params |-> [id |-> id]]
       /\ Respond(r)

DeleteTodos ==
  \E username \in Usernames, id \in 1..inputs.maxUuid :
    LET r == DeleteTodosHandler(users, uuidCount, now, username, id)
    IN /\ request' = [method |-> "DELETE", path |-> "/todos/:id",
                      headers |-> [username |-> username], params |-> [id |-> id]]
       /\ Respond(r)

Next ==
  \/ PostUsers
  \/ GetTodos
  \/ PostTodos
  \/ PutTodos
  \/ PatchTodosDone
  \/ DeleteTodos

Spec == Init /\ [][Next]_vars

SpecLong == InitLong /\ [][Next]_vars

\* ---- vocabulary of the properties ----
TodoPaths == {"/todos", "/todos/:id", "/todos/:id/done"}

IsTodoRequest(req) == req.path \in TodoPaths

HasIdParam(req) == req.method \in {"PUT", "PATCH", "DELETE"}

\* the users whose username is the given value
Owners(us, username) == {i \in 1..Len(us) : us[i].username = username}

TodoIds(todos) == {todos[i].id : i \in 1..Len(todos)}

Position(todos, id) == CHOOSE k \in 1..Len(todos) : todos[k].id = id

\* the users a request acts for, found in the store as it was before the request
Acting(req) == Owners(users, req.headers.username)

\* C1: no two users of the store share a username; POST /users with a
\* username already in the store answers 400 and leaves the store unchanged,
\* and with a new username answers 201 and appends exactly one user, whose
\* todos are empty.
C1_UniqueUsernames ==
  [][ /\ \A i, j \in 1..Len(users') :
           i # j => users'[i].username # users'[j].username
      /\ (request'.method = "POST" /\ request'.path = "/users") =>
           IF Owners(users, request'.body.username) # {}
           THEN /\ response'.status = 400
                /\ users' = users
                /\ Cardinality(Owners(users', request'.body.username)) = 1
           ELSE /\ response'.status = 201
                /\ Len(users') = Len(users) + 1
                /\ SubSeq(users', 1, Len(users)) = users
                /\ users'[Len(users')].username = request'.body.username
                /\ users'[Len(users')].todos = <<>> ]_vars

\* C1 witness: a POST /users was answered 400 for a username the store holds,
\* in a store of two users.
C1_Witness ==
  /\ request.method = "POST" /\ request.path = "/users"
  /\ response.status = 400
  /\ Len(users) = 2
  /\ Owners(users, request.body.username) # {}

\* C2: a todo request whose username header is absent, or matches no user, is
\* answered with a client error, is not handed to the route handler, and
\* leaves the store unchanged.
C2_UnresolvedRejected ==
  [][ (/\ IsTodoRequest(request')
       /\ \/ request'.headers.username = Undefined
          \/ Acting(request') = {})
      => /\ response'.status \in 400..499
         /\ ~nextCalled'
         /\ users' = users ]_vars

\* C3: for a resolved user and an id that none of that user's todos has,
\* PUT, PATCH and DELETE answer 404 and leave that user's todos unchanged.
C3_UnknownIdNotFound ==
  [][ (/\ IsTodoRequest(request') /\ HasIdParam(request')
       /\ \E u \in Acting(request') :
            request'.params.id \notin TodoIds(users[u].todos))
      => /\ response'.status = 404
         /\ \A u \in Acting(request') : users'[u].todos = users[u].todos ]_vars

\* C3 witness: a PUT, PATCH or DELETE of a user who has todos was answered 404.
C3_Witness ==
  /\ IsTodoRequest(request) /\ HasIdParam(request)
  /\ response.status = 404
  /\ \E u \in Acting(request) :
       /\ users[u].todos # <<>>
       /\ request.params.id \notin TodoIds(users[u].todos)

\* C4: a todo request made with the username of user A never changes the
\* todos of another user B, never returns one of B's todos, and answers 404
\* when the id in the path is the id of one of B's todos.
C4_NoCrossUserAccess ==
  [][ IsTodoRequest(request') =>
        \A a \in Acting(request') : \A b \in (1..Len(users)) \ {a} :
          /\ users'[b] = users[b]
          /\ (HasIdParam(request') /\ request'.params.id \in TodoIds(users[b].todos))
               => response'.status = 404
          /\ (request'.method = "GET" /\ response'.status = 200)
               => \A i \in 1..Len(response'.body) :
                    response'.body[i].id \notin TodoIds(users[b].todos)
          /\ (request'.method # "GET" /\ response'.status \in {200, 201})
               => response'.body.id \notin TodoIds(users[b].todos) ]_vars

\* C4 witness: a request of one user named the id of a todo of another user
\* and was answered 404.
C4_Witness ==
  /\ IsTodoRequest(request) /\ HasIdParam(request)
  /\ response.status = 404
  /\ \E a \in Acting(request) : \E b \in (1..Len(users)) \ {a} :
       request.params.id \in TodoIds(users[b].todos)

\* C5: for a resolved user who has a todo with the given id, DELETE answers
\* 204 and removes exactly that entry: the length drops by one and the other
\* entries keep their values and their relative order.
C5_DeleteRemovesOne ==
  [][ (/\ request'.method = "DELETE" /\ request'.path = "/todos/:id"
       /\ \E u \in Acting(request') :
            request'.params.id \in TodoIds(users[u].todos))
      => /\ response'.status = 204
         /\ \A u \in Acting(request') :
              /\ Len(users'[u].todos) = Len(users[u].todos) - 1
              /\ request'.params.id \notin TodoIds(users'[u].todos)
              /\ users'[u].todos =
                   SelectSeq(users[u].todos,
                             LAMBDA t : t.id # request'.params.id) ]_vars

\* C5 witness: a DELETE answered 204 took an entry out of the middle of a
\* list, leaving an entry created before it and one created after it.
C5_Witness ==
  /\ request.method = "DELETE" /\ request.path = "/todos/:id"
  /\ response.status = 204
  /\ \E u \in Acting(request) :
       \E i \in 1..(Len(users[u].todos) - 1) :
         /\ users[u].todos[i].id < request.params.id
         /\ request.params.id < users[u].todos[i + 1].id

\* C6: for a resolved user GET /todos answers 200 with that user's todos in
\* stored order and changes nothing; POST /todos appends its new todo
\* (done = false, fresh id) at the end; and the stored order is always the
\* order of creation of the todos still present (ids are numbered in the
\* order of their creation).
C6_ListInCreationOrder ==
  [][ /\ \A u \in 1..Len(users') :
           \A i, j \in 1..Len(users'[u].todos) :
             i < j => users'[u].todos[i].id < users'[u].todos[j].id
      /\ \A u \in 1..Len(users) :
           \A x, y \in TodoIds(users[u].todos) \cap TodoIds(users'[u].todos) :
             Position(users[u].todos, x) < Position(users[u].todos, y)
               => Position(users'[u].todos, x) < Position(users'[u].todos, y)
      /\ (request'.method = "GET" /\ request'.path = "/todos") =>
           \A u \in Acting(request') :
             /\ response'.status = 200
             /\ users' = users
             /\ Len(response'.body) = Len(users[u].todos)
             /\ \A i \in 1..Len(users[u].todos) :
                  LET stored == users[u].todos[i]
                      sent == response'.body[i]
                  IN /\ sent.id = stored.id
                     /\ sent.title = stored.title
                     /\ sent.done = stored.done
                     /\ sent.created_at = stored.created_at
                     /\ sent.deadline = IF stored.deadline = InvalidDate
                                        THEN Null ELSE stored.deadline
      /\ (request'.method = "POST" /\ request'.path = "/todos") =>
           \A u \in Acting(request') :
             LET new == users'[u].todos[Len(users'[u].todos)]
             IN /\ response'.status = 201
                /\ Len(users'[u].todos) = Len(users[u].todos) + 1
                /\ SubSeq(users'[u].todos, 1, Len(users[u].todos)) = users[u].todos
                /\ new.done = FALSE
                /\ new.title = request'.body.title
                /\ response'.body.id = new.id
                /\ \A v \in 1..Len(users) :
                     new.id # users[v].id /\ new.id \notin TodoIds(users[v].todos) ]_vars

\* C6 witness: a GET returned two todos, the first and the third created, after
\* the one created between them was deleted.
C6_Witness ==
  /\ request.method = "GET" /\ request.path = "/todos"
  /\ response.status = 200
  /\ Len(response.body) = 2
  /\ response.body[2].id = response.body[1].id + 2

\* C7: PATCH /todos/:id/done of a todo the resolved user has answers 200 and
\* leaves done = true; the same request right after it answers 200 again and
\* leaves the store as the first call left it.
C7_CompleteIdempotent ==
  [][ /\ (/\ request'.method = "PATCH" /\ request'.path = "/todos/:id/done"
          /\ \E u \in Acting(request') :
               request'.params.id \in TodoIds(users[u].todos))
         => /\ response'.status = 200
            /\ response'.body.done = TRUE
            /\ \A u \in Acting(request') :
                 users'[u].todos[Position(users'[u].todos, request'.params.id)].done
      /\ (/\ request.method = "PATCH" /\ response.status = 200
          /\ request'.method = "PATCH" /\ request' = request)
         => /\ response'.status = 200
            /\ users' = users ]_vars

\* C7 witness: a PATCH was answered 200 for a todo that was done already
\* (the state a second call in a row leaves).
C7_Witness ==
  /\ request.method = "PATCH" /\ response.status = 200
  /\ \E u \in Acting(request) :
       /\ request.params.id \in TodoIds(users[u].todos)
       /\ users[u].todos[Position(users[u].todos, request.params.id)].done
       /\ users[u].todo = request.params.id

\* C8: PUT /todos/:id of a todo the resolved user has answers 200 and replaces
\* its title and deadline (the parsed date) in place; its done, id and
\* created_at, its position and the user's other todos are unchanged.
C8_UpdateInPlace ==
  [][ (/\ request'.method = "PUT" /\ request'.path = "/todos/:id"
       /\ \E u \in Acting(request') :
            request'.params.id \in TodoIds(users[u].todos))
      => /\ response'.status = 200
         /\ \A u \in Acting(request') :
              LET k == Position(users[u].todos, request'.params.id)
                  old == users[u].todos[k]
              IN /\ Len(users'[u].todos) = Len(users[u].todos)
                 /\ users'[u].todos[k] =
                      [id |-> old.id,
                       title |-> request'.body.title,
                       done |-> old.done,
                       deadline |-> IF request'.body.deadline = "2024-01-01"
                                    THEN "2024-01-01T00:00:00.000Z"
                                    ELSE InvalidDate,
                       created_at |-> old.created_at]
                 /\ \A j \in 1..Len(users[u].todos) :
                      j # k => users'[u].todos[j] = users[u].todos[j] ]_vars

\* C8 witness: a PUT answered 200 changed the second of two todos, which was
\* done and stays done.
C8_Witness ==
  /\ request.method = "PUT" /\ response.status = 200
  /\ \E u \in Acting(request) :
       /\ Len(users[u].todos) = 2
       /\ users[u].todos[2].id = request.params.id
       /\ users[u].todos[2].done
       /\ users[u].todos[2].title = "walk dog"
       /\ users[u].todos[1].title = "buy milk"

\* C9: a todo is created with done = false, only PATCH /todos/:id/done sets
\* done to true, and a todo that is done stays done as long as it is in its
\* owner's list.
C9_DoneMonotonic ==
  [][ \A u \in 1..Len(users') : \A j \in 1..Len(users'[u].todos) :
        LET after == users'[u].todos[j]
            before == IF u <= Len(users)
                      THEN {i \in 1..Len(users[u].todos) :
                              users[u].todos[i].id = after.id}
                      ELSE {}
        IN /\ before = {} => ~after.done
           /\ \A i \in before :
                /\ users[u].todos[i].done => after.done
                /\ (~users[u].todos[i].done /\ after.done)
                     => /\ request'.method = "PATCH"
                        /\ request'.params.id = after.id ]_vars

\* C9 witness: a todo was created (done = false) next to a todo that is done.
C9_Witness ==
  /\ request.method = "POST" /\ request.path = "/todos"
  /\ response.status = 201
  /\ \E u \in Acting(request) :
       /\ Len(users[u].todos) = 2
       /\ users[u].todos[1].done
       /\ ~users[u].todos[2].done

\* C10: when the username of the header matches no user, the middleware
\* answers 404 with a JSON error and does not call next.
C10_RejectedWith404 ==
  (IsTodoRequest(request) /\ Acting(request) = {})
    => /\ response.status = 404
       /\ ~nextCalled

====
